---- MODULE Spec2Model ----
(***************************************************************************)
(* persi-ds: persistent (immutable, structurally shared) collections.      *)
(*                                                                         *)
(* The model keeps the two node stores of the library as explicit heaps:   *)
(*   heap   the list nodes  (element, next)            shared/list.rs      *)
(*   theap  the tree nodes  (element, colour, l, r)    shared/rb_tree.rs   *)
(* A handle (Option<L>) is None or the index of a node in its heap, so     *)
(* that "the very same node" is equality of indices.  Every handle a       *)
(* client has obtained is kept, in the order it was obtained, together     *)
(* with the call that produced it (lists, trees).  A call that panics ends  *)
(* the run: panicked records the call and no further action is enabled.    *)
(* A call that returns a value and no handle (a fold, ==) is kept, with    *)
(* its value, in returned.  sync is the thread-safe list (sync/list.rs)     *)
(* given the same calls as the list of heap and lists.                     *)
(*                                                                         *)
(* Teardown is modelled on a store of its own, mem, whose nodes carry the  *)
(* strong count of their Rc / Arc, the handles each thread holds on them   *)
(* and whether they have been released; th is where each thread stands in  *)
(* a drop.                                                                 *)
(***************************************************************************)
EXTENDS Integers, Sequences, FiniteSets, TLC

VARIABLES
    heap,       \* Seq of list nodes [element, next]
    lists,      \* Seq of list handles [head, op, src, arg], oldest first
    theap,      \* Seq of tree nodes [element, colour, left, right]
    trees,      \* Seq of tree handles [root, op, src, key, val], oldest first
    panicked,   \* [op, src, key, val]: the call that panicked, op = "none" while running
    subject,    \* which structure this run exercises: "list", "tree" or "fn"
    returned,   \* Seq of [op, src, f, arg, checks, val, panic]: the calls that returned a value
    sync,       \* [heap, lists, panicked] of the thread-safe list run alongside
    mem,        \* Seq of reference-counted nodes [next, strong, released, held]
    th          \* per thread, the teardown it is in: [pc, cur, stack, deepest]

vars == <<heap, lists, theap, trees, panicked, subject, returned, sync, mem, th>>

(***************************************************************************)
(* Bounds of the model.                                                    *)
(***************************************************************************)
MaxLists == 4       \* list handles a run obtains (the initial one included)
MaxTrees == 4        \* tree handles a run obtains (the initial one included)
MaxKey == 3         \* map keys are 1..MaxKey
MaxLen == 4         \* length of the input list drawn for a list function
MaxFnElem == 4      \* elements of that input list are 1..MaxFnElem
MaxNodes == 3       \* reference-counted nodes a teardown run allocates
MaxHandles == 3     \* list handles alive at once in a teardown run
IntBits == 4        \* i32 is modelled with IntBits bits

Elem == {1, 2}          \* the elements a client conses
Keys == 1..MaxKey
Vals == {1, 2}          \* the values a client stores
FnElem == 1..MaxFnElem

(***************************************************************************)
(* Option and call results.                                                *)
(***************************************************************************)
None == 0                       \* Option::None of a handle
NoneVal == <<>>                 \* Option::None of a borrowed value
Some(x) == <<x>>                \* Option::Some of a borrowed value

Ok(h, v) == [heap |-> h, val |-> v, panic |-> FALSE]
Panic(h) == [heap |-> h, val |-> None, panic |-> TRUE]

(***************************************************************************)
(* Link for Rc<Node<T>>  (unsync/list.rs)                                  *)
(***************************************************************************)
Link_from_value(h, element) ==
    Ok(Append(h, [element |-> element, next |-> None]), Len(h) + 1)

\* A cons that pushes in place: the head node of the tail is moved to a new
\* node and overwritten with the new element.
Link_cons_in_place(h, element, next) ==
    IF next = None
    THEN Ok(Append(h, [element |-> element, next |-> None]), Len(h) + 1)
    ELSE Ok([Append(h, h[next]) EXCEPT ![next] =
                [element |-> element, next |-> Len(h) + 1]], next)

Link_cons(h, element, next) ==
    Ok(Append(h, [element |-> element, next |-> next]), Len(h) + 1)

\* Rc::clone: another reference to the same node
Link_clone(l) == l

Link_get_element(h, l) == h[l].element

Link_next_cloned(h, l) ==
    IF h[l].next = None THEN None ELSE Link_clone(h[l].next)

Link_next_ref(h, l) == h[l].next

(***************************************************************************)
(* List<L>  (shared/list.rs).  A list is its head: Option<L>.              *)
(***************************************************************************)
List_new == None

List_empty == None

List_clone(l) == IF l = None THEN None ELSE Link_clone(l)

\* A cons that copies the head node of the tail instead of sharing it.
cons_copying(h, element, tail) ==
    IF tail = None
    THEN Link_cons(h, element, None)
    ELSE LET c == Link_cons(h, h[tail].element, h[tail].next)
         IN  Link_cons(c.heap, element, c.val)

cons(h, element, tail) ==
    Link_cons(h, element, IF tail = None THEN None ELSE Link_clone(tail))

from_value(h, element) == Link_from_value(h, element)

front(h, l) == IF l = None THEN NoneVal ELSE Some(Link_get_element(h, l))

is_empty(l) == l = None

\* A popped_front that answers the empty list for the empty list.
popped_front_sentinel(h, l) ==
    IF l = None THEN Ok(h, None) ELSE Ok(h, Link_next_cloned(h, l))

popped_front(h, l) ==
    IF l = None
    THEN Panic(h)
    ELSE Ok(h, Link_next_cloned(h, l))

pushed_front(h, l, value) == cons(h, value, List_clone(l))

\* Iter: the elements front to back
RECURSIVE iter(_, _)
iter(h, l) ==
    IF l = None
    THEN <<>>
    ELSE <<Link_get_element(h, l)>> \o iter(h, Link_next_ref(h, l))

\* An equality by zip, which stops at the end of the shorter list.
RECURSIVE zip_all_eq(_, _)
zip_all_eq(a, b) ==
    IF a = <<>> \/ b = <<>> THEN TRUE
    ELSE Head(a) = Head(b) /\ zip_all_eq(Tail(a), Tail(b))

\* PartialEq: zip_longest(...).all(Both(a, b) if a == b)
RECURSIVE zip_all_both_eq(_, _)
zip_all_both_eq(a, b) ==
    IF a = <<>> /\ b = <<>> THEN TRUE
    ELSE IF a = <<>> \/ b = <<>> THEN FALSE
    ELSE Head(a) = Head(b) /\ zip_all_both_eq(Tail(a), Tail(b))

eq(h, a, b) == zip_all_both_eq(iter(h, a), iter(h, b))

(***************************************************************************)
(* Closures handed to the list functions.  A closure is named; Call is     *)
(* its application f(&x), which may build a list in the heap.              *)
(***************************************************************************)
\* the list with the elements of s, front to back, built by cons
RECURSIVE list_of(_, _)
list_of(h, s) ==
    IF s = <<>>
    THEN Ok(h, List_new)
    ELSE LET t == list_of(h, Tail(s))
         IN  cons(t.heap, Head(s), t.val)

\* fn double(v: &i32) -> i32 { v * 2 }
double(v) == v * 2

\* List Monad: mreturn
mreturn(h, t) == cons(h, t, List_new)

ValFns == {"double", "succ", "const"}
ListFns == {"mreturn", "nil", "pair", "countdown"}

\* |x| mbind(&k1(x), k2): the closure on the right of the associativity law
Kleisli(k1, k2) == k1 \o ">=>" \o k2
KleisliFns == {Kleisli(k1, k2) : k1 \in ListFns, k2 \in ListFns}
KleisliFirst(c) == CHOOSE k1 \in ListFns : \E k2 \in ListFns : Kleisli(k1, k2) = c
KleisliSecond(c) == CHOOSE k2 \in ListFns : \E k1 \in ListFns : Kleisli(k1, k2) = c

RECURSIVE mbind(_, _, _)
RECURSIVE Call(_, _, _)
Call(h, f, x) ==
    CASE f = "double"    -> Ok(h, double(x))
      [] f = "succ"      -> Ok(h, x + 1)
      [] f = "const"     -> Ok(h, 1)
      [] f = "mreturn"   -> mreturn(h, x)
      [] f = "nil"       -> Ok(h, List_empty)
      [] f = "pair"      -> list_of(h, <<x, x + 1>>)
      [] f = "countdown" -> list_of(h, <<x, x - 1, x - 2>>)
      [] OTHER           -> LET l == Call(h, KleisliFirst(f), x)
                            IN  mbind(l.heap, l.val, KleisliSecond(f))

\* what the closure returns, as a value: a number, or the elements of a list
CallValue(f, x) ==
    LET r == Call(<<>>, f, x)
    IN  IF f \in ValFns THEN r.val ELSE iter(r.heap, r.val)

(***************************************************************************)
(* fmap, concat_all, mbind  (shared/list.rs)                               *)
(***************************************************************************)
\* for x in list { result = result.pushed_front(f(&x)); }
RECURSIVE fmap_loop(_, _, _, _)
fmap_loop(h, f, cur, result) ==
    IF cur = None
    THEN Ok(h, result)
    ELSE LET y == Call(h, f, Link_get_element(h, cur))
             r == pushed_front(y.heap, result, y.val)
         IN  fmap_loop(r.heap, f, Link_next_ref(h, cur), r.val)

fmap(h, f, list) == fmap_loop(h, f, list, List_new)

\* for x in xs { result = result.pushed_front(x.clone()); }
RECURSIVE concat_all_inner(_, _, _)
concat_all_inner(h, cur, result) ==
    IF cur = None
    THEN Ok(h, result)
    ELSE LET r == pushed_front(h, result, Link_get_element(h, cur))
         IN  concat_all_inner(r.heap, Link_next_ref(h, cur), r.val)

\* for xs in xss { ... }
RECURSIVE concat_all_outer(_, _, _)
concat_all_outer(h, cur, result) ==
    IF cur = None
    THEN Ok(h, result)
    ELSE LET r == concat_all_inner(h, Link_get_element(h, cur), result)
         IN  concat_all_outer(r.heap, Link_next_ref(h, cur), r.val)

\* The flattening by foldr that concat_all has in a comment:
\* foldr(|xs, acc| concat(xs, &acc), List::default(), xss)
RECURSIVE foldr(_, _, _, _, _)
concat_all_by_foldr(h, xss) == foldr(h, FALSE, "concat", List_new, xss)

concat_all(h, xss) == concat_all_outer(h, xss, List_new)

mbind(h, list, k) ==
    LET list_list == fmap(h, k, list)
    IN  concat_all(list_list.heap, list_list.val)

(***************************************************************************)
(* i32 arithmetic of the closures handed to the folds.  a + b and a - b    *)
(* panic on overflow in a build with overflow checks (debug, cargo test)   *)
(* and wrap in one without (release).                                      *)
(***************************************************************************)
IntMin == -(2 ^ (IntBits - 1))
IntMax == 2 ^ (IntBits - 1) - 1

wrapping(n) == ((n - IntMin) % (2 ^ IntBits)) + IntMin

arith(h, checks, n) ==
    IF n >= IntMin /\ n <= IntMax THEN Ok(h, n)
    ELSE IF checks THEN Panic(h)
    ELSE Ok(h, wrapping(n))

(***************************************************************************)
(* foldl, foldr, concat, filter  (shared/list.rs)                          *)
(***************************************************************************)
FoldFns == {"add", "sub"}

RECURSIVE concat(_, _, _)
\* f(a, b): fn sum(a, b) { a + b }, fn sub(a, b) { a - b },
\* |xs, acc| concat(xs, &acc)
Call2(h, checks, f, a, b) ==
    CASE f = "add"    -> arith(h, checks, a + b)
      [] f = "sub"    -> arith(h, checks, a - b)
      [] f = "concat" -> concat(h, a, b)

\* A foldl that passes acc on instead of f(acc, head).
RECURSIVE foldl_keeping_acc(_, _, _, _, _)
foldl_keeping_acc(h, checks, f, acc, list) ==
    IF front(h, list) = NoneVal
    THEN Ok(h, acc)
    ELSE LET t == popped_front(h, list)
         IN  foldl_keeping_acc(t.heap, checks, f, acc, t.val)

\* A foldl that folds the tail before the head.
RECURSIVE foldl_from_back(_, _, _, _, _)
foldl_from_back(h, checks, f, acc, list) ==
    IF front(h, list) = NoneVal
    THEN Ok(h, acc)
    ELSE LET head == front(h, list)[1]
             t == popped_front(h, list)
             r == foldl_from_back(t.heap, checks, f, acc, t.val)
         IN  IF r.panic
             THEN r
             ELSE Call2(r.heap, checks, f, r.val, head)

RECURSIVE foldl(_, _, _, _, _)
foldl(h, checks, f, acc, list) ==
    IF front(h, list) = NoneVal
    THEN Ok(h, acc)
    ELSE LET head == front(h, list)[1]
             a == Call2(h, checks, f, acc, head)
         IN  IF a.panic
             THEN a
             ELSE LET t == popped_front(a.heap, list)
                  IN  foldl(t.heap, checks, f, a.val, t.val)

foldr(h, checks, f, acc, list) ==
    IF front(h, list) = NoneVal
    THEN Ok(h, acc)
    ELSE LET head == front(h, list)[1]
             t == popped_front(h, list)
             r == foldr(t.heap, checks, f, acc, t.val)
         IN  IF r.panic
             THEN r
             ELSE Call2(r.heap, checks, f, head, r.val)

concat(h, a, b) ==
    IF front(h, a) = NoneVal
    THEN Ok(h, List_clone(b))
    ELSE LET head == front(h, a)[1]
             t == popped_front(h, a)
             r == concat(t.heap, t.val, b)
         IN  cons(r.heap, head, r.val)

PredFns == {"even", "positive"}

\* p(head): fn even(v) { v % 2 == 0 }, |v| *v > 0
Test(p, v) ==
    CASE p = "even"     -> v % 2 = 0
      [] p = "positive" -> v > 0

\* A filter that accumulates the kept elements front to back with
\* pushed_front, the way fmap does.
RECURSIVE filter_loop(_, _, _, _)
filter_loop(h, p, cur, result) ==
    IF cur = None
    THEN Ok(h, result)
    ELSE IF Test(p, Link_get_element(h, cur))
         THEN LET r == pushed_front(h, result, Link_get_element(h, cur))
              IN  filter_loop(r.heap, p, Link_next_ref(h, cur), r.val)
         ELSE filter_loop(h, p, Link_next_ref(h, cur), result)

filter_accumulating(h, p, list) == filter_loop(h, p, list, List_new)

RECURSIVE filter(_, _, _)
filter(h, p, list) ==
    IF front(h, list) = NoneVal
    THEN Ok(h, List_new)
    ELSE LET head == front(h, list)[1]
             t == popped_front(h, list)
             tail == filter(t.heap, p, t.val)
         IN  IF Test(p, head)
             THEN cons(tail.heap, head, tail.val)
             ELSE tail

(***************************************************************************)
(* The thread-safe list  (sync/list.rs): List<T> { head: Link<T> } over    *)
(* Option<Arc<Node<T>>>, with its own heap of nodes [element, next].       *)
(***************************************************************************)
Sync_empty == None

Sync_new == None

\* Arc::new(Node { element, next: tail.head.clone() })
Sync_cons(h, element, tail) ==
    Ok(Append(h, [element |-> element, next |-> tail]), Len(h) + 1)

Sync_from_value(h, element) ==
    Ok(Append(h, [element |-> element, next |-> None]), Len(h) + 1)

Sync_front(h, l) == IF l = None THEN NoneVal ELSE Some(h[l].element)

Sync_is_empty(l) == l = None

Sync_popped_front(h, l) ==
    IF l = None
    THEN Panic(h)
    ELSE Ok(h, h[l].next)

Sync_tail(h, l) == Sync_popped_front(h, l)

Sync_head_tail_ref(h, l) == <<Sync_front(h, l), Sync_tail(h, l)>>

Sync_pushed_front(h, l, value) == Sync_cons(h, value, l)

RECURSIVE Sync_iter(_, _)
Sync_iter(h, l) ==
    IF l = None
    THEN <<>>
    ELSE <<h[l].element>> \o Sync_iter(h, h[l].next)

RECURSIVE Sync_eq(_, _, _)
Sync_eq(h, a, b) ==
    CASE Sync_is_empty(a) /\ Sync_is_empty(b)    -> TRUE
      [] Sync_is_empty(a) /\ ~Sync_is_empty(b)   -> FALSE
      [] ~Sync_is_empty(a) /\ Sync_is_empty(b)   -> FALSE
      [] OTHER ->
            LET s == Sync_head_tail_ref(h, a)
                o == Sync_head_tail_ref(h, b)
            IN  IF s[1] # NoneVal /\ o[1] # NoneVal
                THEN s[1][1] = o[1][1] /\ Sync_eq(h, s[2].val, o[2].val)
                ELSE FALSE

RECURSIVE Sync_list_of(_, _)
Sync_list_of(h, s) ==
    IF s = <<>>
    THEN Ok(h, Sync_empty)
    ELSE LET t == Sync_list_of(h, Tail(s))
         IN  Sync_cons(t.heap, Head(s), t.val)

Sync_mreturn(h, t) == Sync_from_value(h, t)

Sync_Call(h, f, x) ==
    CASE f = "double"    -> Ok(h, double(x))
      [] f = "succ"      -> Ok(h, x + 1)
      [] f = "const"     -> Ok(h, 1)
      [] f = "mreturn"   -> Sync_mreturn(h, x)
      [] f = "nil"       -> Ok(h, Sync_empty)
      [] f = "pair"      -> Sync_list_of(h, <<x, x + 1>>)
      [] f = "countdown" -> Sync_list_of(h, <<x, x - 1, x - 2>>)

RECURSIVE Sync_filter(_, _, _)
Sync_filter(h, p, list) ==
    IF Sync_front(h, list) = NoneVal
    THEN Ok(h, Sync_empty)
    ELSE LET head == Sync_front(h, list)[1]
             t == Sync_popped_front(h, list)
             tail == Sync_filter(t.heap, p, t.val)
         IN  IF Test(p, head)
             THEN Sync_cons(tail.heap, head, tail.val)
             ELSE tail

\* A fmap that conses f(x) onto the mapped tail, keeping the order.
RECURSIVE Sync_fmap_in_order(_, _, _)
Sync_fmap_in_order(h, f, list) ==
    IF list = None
    THEN Ok(h, Sync_empty)
    ELSE LET t == Sync_fmap_in_order(h, f, h[list].next)
             y == Sync_Call(t.heap, f, h[list].element)
         IN  Sync_cons(y.heap, y.val, t.val)

\* for x in list { result = result.pushed_front(f(&x)); }
RECURSIVE Sync_fmap_loop(_, _, _, _)
Sync_fmap_loop(h, f, cur, result) ==
    IF cur = None
    THEN Ok(h, result)
    ELSE LET y == Sync_Call(h, f, h[cur].element)
             r == Sync_pushed_front(y.heap, result, y.val)
         IN  Sync_fmap_loop(r.heap, f, h[cur].next, r.val)

Sync_fmap(h, f, list) == Sync_fmap_loop(h, f, list, Sync_empty)

RECURSIVE Sync_concat(_, _, _)
Sync_Call2(h, checks, f, a, b) ==
    CASE f = "add"    -> arith(h, checks, a + b)
      [] f = "sub"    -> arith(h, checks, a - b)
      [] f = "concat" -> Sync_concat(h, a, b)

\* loop { match list.front() { None => break,
\*        Some(head) => { acc = f(acc, head); list = list.popped_front() } } }
RECURSIVE Sync_foldl(_, _, _, _, _)
Sync_foldl(h, checks, f, acc, list) ==
    IF Sync_front(h, list) = NoneVal
    THEN Ok(h, acc)
    ELSE LET a == Sync_Call2(h, checks, f, acc, Sync_front(h, list)[1])
         IN  IF a.panic
             THEN a
             ELSE Sync_foldl(a.heap, checks, f, a.val,
                             Sync_popped_front(a.heap, list).val)

RECURSIVE Sync_foldr(_, _, _, _, _)
Sync_foldr(h, checks, f, acc, list) ==
    IF Sync_front(h, list) = NoneVal
    THEN Ok(h, acc)
    ELSE LET head == Sync_front(h, list)[1]
             t == Sync_popped_front(h, list)
             r == Sync_foldr(t.heap, checks, f, acc, t.val)
         IN  IF r.panic
             THEN r
             ELSE Sync_Call2(r.heap, checks, f, head, r.val)

Sync_concat(h, a, b) ==
    IF Sync_front(h, a) = NoneVal
    THEN Ok(h, b)
    ELSE LET head == Sync_front(h, a)[1]
             t == Sync_popped_front(h, a)
             r == Sync_concat(t.heap, t.val, b)
         IN  Sync_cons(r.heap, head, r.val)

RECURSIVE Sync_concat_all_inner(_, _, _)
Sync_concat_all_inner(h, cur, result) ==
    IF cur = None
    THEN Ok(h, result)
    ELSE LET r == Sync_pushed_front(h, result, h[cur].element)
         IN  Sync_concat_all_inner(r.heap, h[cur].next, r.val)

RECURSIVE Sync_concat_all_outer(_, _, _)
Sync_concat_all_outer(h, cur, result) ==
    IF cur = None
    THEN Ok(h, result)
    ELSE LET r == Sync_concat_all_inner(h, h[cur].element, result)
         IN  Sync_concat_all_outer(r.heap, h[cur].next, r.val)

Sync_concat_all(h, xss) == Sync_concat_all_outer(h, xss, Sync_empty)

Sync_mbind(h, list, k) ==
    LET list_list == Sync_fmap(h, k, list)
    IN  Sync_concat_all(list_list.heap, list_list.val)

(***************************************************************************)
(* KeyValue<K, V>  (common/key_value.rs): ordered by the key alone.        *)
(***************************************************************************)
KeyValue(k, v) == <<k, v>>

\* The derived ordering of a tuple struct: by key, then by value.
KeyValue_partial_cmp_derived(a, b) ==
    IF a[1] < b[1] THEN "Less"
    ELSE IF a[1] > b[1] THEN "Greater"
    ELSE IF a[2] < b[2] THEN "Less"
    ELSE IF a[2] > b[2] THEN "Greater"
    ELSE "Equal"

\* PartialOrd for KeyValue: self.0.partial_cmp(&other.0)
KeyValue_partial_cmp(a, b) ==
    IF a[1] < b[1] THEN "Less" ELSE IF a[1] > b[1] THEN "Greater" ELSE "Equal"

\* PartialOrd<K> for KeyValue: self.0.partial_cmp(&other)
KeyValue_partial_cmp_key(a, k) ==
    IF a[1] < k THEN "Less" ELSE IF a[1] > k THEN "Greater" ELSE "Equal"

(***************************************************************************)
(* RBNode  (shared/rb_node.rs declares the capability; the node type that  *)
(* implements it is described in the specification, sections 3 and 4.3).   *)
(***************************************************************************)
Red == "Red"
Black == "Black"

RBNode_new(h, c, x, left, right) ==
    Ok(Append(h, [element |-> x, colour |-> c, left |-> left, right |-> right]),
       Len(h) + 1)

\* The colour of a leaf must be Colour::Red.
RBNode_leaf(h, element) == RBNode_new(h, Red, element, None, None)

RBNode_clone(n) == n

RBNode_get_element(h, n) == h[n].element

RBNode_get_colour(h, n) == h[n].colour

RBNode_left_cloned(h, n) ==
    IF h[n].left = None THEN None ELSE RBNode_clone(h[n].left)

RBNode_right_cloned(h, n) ==
    IF h[n].right = None THEN None ELSE RBNode_clone(h[n].right)

\* ordered search: left if the query is less, right if greater
RECURSIVE RBNode_get(_, _, _)
RBNode_get(h, n, q) ==
    LET c == KeyValue_partial_cmp_key(h[n].element, q)
    IN  CASE c = "Greater" ->
                 IF h[n].left = None THEN NoneVal ELSE RBNode_get(h, h[n].left, q)
          [] c = "Less" ->
                 IF h[n].right = None THEN NoneVal ELSE RBNode_get(h, h[n].right, q)
          [] OTHER -> Some(h[n].element)

RECURSIVE RBNode_contains(_, _, _)
RBNode_contains(h, n, q) ==
    LET c == KeyValue_partial_cmp_key(h[n].element, q)
    IN  CASE c = "Greater" ->
                 IF h[n].left = None THEN FALSE ELSE RBNode_contains(h, h[n].left, q)
          [] c = "Less" ->
                 IF h[n].right = None THEN FALSE ELSE RBNode_contains(h, h[n].right, q)
          [] OTHER -> TRUE

(***************************************************************************)
(* RBTree<L>  (shared/rb_tree.rs).  A tree is its root: Option<L>.         *)
(***************************************************************************)
RBTree_new == None

RBTree_is_empty(t) == t = None

RBTree_leaf(h, element) == RBNode_leaf(h, element)

RBTree_root(h, t) == IF t = None THEN NoneVal ELSE Some(RBNode_get_element(h, t))

\* assert!(!self.is_empty());
RBTree_left(h, t) ==
    IF RBTree_is_empty(t)
    THEN Panic(h)
    ELSE Ok(h, RBNode_left_cloned(h, t))

RBTree_right(h, t) ==
    IF RBTree_is_empty(t)
    THEN Panic(h)
    ELSE Ok(h, RBNode_right_cloned(h, t))

RBTree_contains(h, t, q) == IF t = None THEN FALSE ELSE RBNode_contains(h, t, q)

RBTree_get(h, t, q) == IF t = None THEN NoneVal ELSE RBNode_get(h, t, q)

RBTree_get_or_default(h, t, q, default) ==
    IF RBTree_get(h, t, q) = NoneVal THEN default ELSE RBTree_get(h, t, q)[1]

\* todo!()
balance_node(h, c, x, left, right) == Panic(h)

\* todo!()
paint_link(h, node, colour) == Panic(h)

RECURSIVE sorted_insert(_, _, _)
sorted_insert(h, node, x) ==
    IF node = None
    THEN RBNode_leaf(h, x)
    ELSE LET c == KeyValue_partial_cmp(x, RBNode_get_element(h, node))
         IN  CASE c = "Less" ->
                      LET l == sorted_insert(h, RBNode_left_cloned(h, node), x)
                      IN  IF l.panic
                          THEN l
                          ELSE balance_node(l.heap, RBNode_get_colour(h, node),
                                            RBNode_get_element(h, node),
                                            l.val, RBNode_right_cloned(h, node))
               [] c = "Greater" ->
                      LET r == sorted_insert(h, RBNode_right_cloned(h, node), x)
                      IN  IF r.panic
                          THEN r
                          ELSE balance_node(r.heap, RBNode_get_colour(h, node),
                                            RBNode_get_element(h, node),
                                            RBNode_left_cloned(h, node), r.val)
               [] OTHER -> Ok(h, RBNode_clone(node))

node_inserted(h, node, x) ==
    LET new_link == sorted_insert(h, node, x)
    IN  IF new_link.panic
        THEN new_link
        ELSE paint_link(new_link.heap, new_link.val, Black)

RBTree_inserted(h, t, x) == node_inserted(h, t, x)

(***************************************************************************)
(* RBTree::inserted_or_replaced, which RBMap calls, is not part of         *)
(* shared/rb_tree.rs.  It is modelled from the specification, section 4.4: *)
(* insert, rebalance at every rebuilt node, blacken the root; at an equal  *)
(* element the node is replaced by one of the same colour and children     *)
(* holding the new element.                                                *)
(***************************************************************************)
IsRed(h, n) == n # None /\ h[n].colour = Red

\* the four red-red shapes under a Black node; any other colouring as is
rebalance(h, c, x, left, right) ==
    CASE c = Black /\ IsRed(h, left) /\ IsRed(h, h[left].left) ->
             LET ll == h[left].left
                 a == RBNode_new(h, Black, h[ll].element, h[ll].left, h[ll].right)
                 b == RBNode_new(a.heap, Black, x, h[left].right, right)
             IN  RBNode_new(b.heap, Red, h[left].element, a.val, b.val)
      [] c = Black /\ IsRed(h, left) /\ IsRed(h, h[left].right) ->
             LET lr == h[left].right
                 a == RBNode_new(h, Black, h[left].element, h[left].left, h[lr].left)
                 b == RBNode_new(a.heap, Black, x, h[lr].right, right)
             IN  RBNode_new(b.heap, Red, h[lr].element, a.val, b.val)
      [] c = Black /\ IsRed(h, right) /\ IsRed(h, h[right].left) ->
             LET rl == h[right].left
                 a == RBNode_new(h, Black, x, left, h[rl].left)
                 b == RBNode_new(a.heap, Black, h[right].element, h[rl].right,
                                 h[right].right)
             IN  RBNode_new(b.heap, Red, h[rl].element, a.val, b.val)
      [] c = Black /\ IsRed(h, right) /\ IsRed(h, h[right].right) ->
             LET rr == h[right].right
                 a == RBNode_new(h, Black, x, left, h[right].left)
                 b == RBNode_new(a.heap, Black, h[rr].element, h[rr].left, h[rr].right)
             IN  RBNode_new(b.heap, Red, h[right].element, a.val, b.val)
      [] OTHER -> RBNode_new(h, c, x, left, right)

\* force the root colour to Black
blacken(h, node) ==
    IF node = None
    THEN Ok(h, None)
    ELSE RBNode_new(h, Black, h[node].element, h[node].left, h[node].right)

RECURSIVE sorted_insert_or_replace(_, _, _)
sorted_insert_or_replace(h, node, x) ==
    IF node = None
    THEN RBNode_leaf(h, x)
    ELSE LET c == KeyValue_partial_cmp(x, RBNode_get_element(h, node))
         IN  CASE c = "Less" ->
                      LET l == sorted_insert_or_replace(h, RBNode_left_cloned(h, node), x)
                      IN  rebalance(l.heap, RBNode_get_colour(h, node),
                                    RBNode_get_element(h, node),
                                    l.val, RBNode_right_cloned(h, node))
               [] c = "Greater" ->
                      LET r == sorted_insert_or_replace(h, RBNode_right_cloned(h, node), x)
                      IN  rebalance(r.heap, RBNode_get_colour(h, node),
                                    RBNode_get_element(h, node),
                                    RBNode_left_cloned(h, node), r.val)
               [] OTHER ->
                      RBNode_new(h, RBNode_get_colour(h, node), x,
                                 RBNode_left_cloned(h, node), RBNode_right_cloned(h, node))

RBTree_inserted_or_replaced(h, t, x) ==
    LET n == sorted_insert_or_replace(h, t, x)
    IN  blacken(n.heap, n.val)

(***************************************************************************)
(* RBMap<K, V>(RBTree<KeyValue<K, V>>)  (unsync/rb_map.rs)                 *)
(***************************************************************************)
RBMap_new == RBTree_new

RBMap_is_empty(m) == RBTree_is_empty(m)

RBMap_contains_key(h, m, k) == RBTree_contains(h, m, k)

RBMap_inserted(h, m, k, v) == RBTree_inserted(h, m, KeyValue(k, v))

RBMap_inserted_or_replaced(h, m, k, v) ==
    RBTree_inserted_or_replaced(h, m, KeyValue(k, v))

RBMap_get(h, m, k) ==
    LET kv == RBTree_get(h, m, k)
    IN  IF kv = NoneVal THEN NoneVal ELSE Some(kv[1][2])

RBMap_get_or_default(h, m, k, default) ==
    LET kv == RBTree_get(h, m, k)
    IN  IF kv = NoneVal THEN default ELSE kv[1][2]

RBMap_get_key_value(h, m, k) ==
    LET kv == RBTree_get(h, m, k)
    IN  IF kv = NoneVal THEN NoneVal ELSE Some(<<kv[1][1], kv[1][2]>>)

(***************************************************************************)
(* The state after construction, and the calls on lists.                   *)
(***************************************************************************)
NotPanicked == [op |-> "none", src |-> 0, key |-> 0, val |-> 0]

\* the panic unwinds: what the call had built is dropped
Unwound(op, src, k, v) == [op |-> op, src |-> src, key |-> k, val |-> v]

ListHandle(head, op, src, arg, f) ==
    [head |-> head, op |-> op, src |-> src, arg |-> arg, f |-> f]

TreeHandle(root, op, src, key, val) ==
    [root |-> root, op |-> op, src |-> src, key |-> key, val |-> val]

NoSync == [heap |-> <<>>, lists |-> <<>>, panicked |-> NotPanicked]

Threads == {1, 2}

Idle == [pc |-> "idle", cur |-> None, stack |-> <<>>, deepest |-> 0]

NoDrop == mem = <<>> /\ th = [t \in Threads |-> Idle]

Init ==
    /\ sync = NoSync
    /\ NoDrop
    /\ heap = <<>>
    /\ lists = <<ListHandle(List_new, "new", 0, 0, "")>>
    /\ theap = <<>>
    /\ trees = <<TreeHandle(RBMap_new, "new", 0, 0, 0)>>
    /\ panicked = NotPanicked
    /\ subject \in {"list", "tree"}
    /\ returned = <<>>

Running(s) == subject = s /\ panicked = NotPanicked

\* the call returned r: keep the new handle, or end the run on a panic
ListReturn(r, op, src, arg, f) ==
    /\ IF r.panic
       THEN /\ heap' = heap
            /\ lists' = lists
            /\ panicked' = Unwound(op, src, arg, 0)
       ELSE /\ heap' = r.heap
            /\ lists' = Append(lists, ListHandle(r.val, op, src, arg, f))
            /\ panicked' = panicked
    /\ UNCHANGED <<theap, trees, subject, returned, sync, mem, th>>

FromValue(x) ==
    /\ Running("list") /\ Len(lists) < MaxLists
    /\ ListReturn(from_value(heap, x), "from_value", 0, x, "")

Cons(x, i) ==
    /\ Running("list") /\ Len(lists) < MaxLists
    /\ ListReturn(cons(heap, x, lists[i].head), "cons", i, x, "")

PushedFront(i, x) ==
    /\ Running("list") /\ Len(lists) < MaxLists
    /\ ListReturn(pushed_front(heap, lists[i].head, x), "pushed_front", i, x, "")

PoppedFront(i) ==
    /\ Running("list") /\ Len(lists) < MaxLists
    /\ ListReturn(popped_front(heap, lists[i].head), "popped_front", i, 0, "")

ListNext ==
    \/ \E x \in Elem : FromValue(x)
    \/ \E x \in Elem, i \in 1..Len(lists) : Cons(x, i)
    \/ \E x \in Elem, i \in 1..Len(lists) : PushedFront(i, x)
    \/ \E i \in 1..Len(lists) : PoppedFront(i)

(***************************************************************************)
(* The calls on trees and maps.                                            *)
(***************************************************************************)
TreeReturn(r, op, src, k, v) ==
    /\ IF r.panic
       THEN /\ theap' = theap
            /\ trees' = trees
            /\ panicked' = Unwound(op, src, k, v)
       ELSE /\ theap' = r.heap
            /\ trees' = Append(trees, TreeHandle(r.val, op, src, k, v))
            /\ panicked' = panicked
    /\ UNCHANGED <<heap, lists, subject, returned, sync, mem, th>>

Leaf(k, v) ==
    /\ Running("tree") /\ Len(trees) < MaxTrees
    /\ TreeReturn(RBTree_leaf(theap, KeyValue(k, v)), "leaf", 0, k, v)

Inserted(i, k, v) ==
    /\ Running("tree") /\ Len(trees) < MaxTrees
    /\ TreeReturn(RBMap_inserted(theap, trees[i].root, k, v), "inserted", i, k, v)

InsertedOrReplaced(i, k, v) ==
    /\ Running("tree") /\ Len(trees) < MaxTrees
    /\ TreeReturn(RBMap_inserted_or_replaced(theap, trees[i].root, k, v),
                  "inserted_or_replaced", i, k, v)

Left(i) ==
    /\ Running("tree") /\ Len(trees) < MaxTrees
    /\ TreeReturn(RBTree_left(theap, trees[i].root), "left", i, 0, 0)

Right(i) ==
    /\ Running("tree") /\ Len(trees) < MaxTrees
    /\ TreeReturn(RBTree_right(theap, trees[i].root), "right", i, 0, 0)

TreeNext ==
    \/ \E k \in Keys, v \in Vals : Leaf(k, v)
    \/ \E i \in 1..Len(trees), k \in Keys, v \in Vals : Inserted(i, k, v)
    \/ \E i \in 1..Len(trees), k \in Keys, v \in Vals : InsertedOrReplaced(i, k, v)
    \/ \E i \in 1..Len(trees) : Left(i)
    \/ \E i \in 1..Len(trees) : Right(i)

(***************************************************************************)
(* The list functions applied to a drawn input list.                       *)
(***************************************************************************)
RECURSIVE SeqsUpTo(_, _)
SeqsUpTo(S, n) ==
    IF n = 0
    THEN {<<>>}
    ELSE LET shorter == SeqsUpTo(S, n - 1)
         IN  shorter \cup {<<x>> \o s : x \in S, s \in {t \in shorter : Len(t) = n - 1}}

FnInit ==
    /\ \E s \in SeqsUpTo(FnElem, MaxLen) :
          LET r == list_of(<<>>, s)
          IN  /\ heap = r.heap
              /\ lists = <<ListHandle(r.val, "input", 0, s, "")>>
    /\ theap = <<>>
    /\ trees = <<TreeHandle(RBMap_new, "new", 0, 0, 0)>>
    /\ panicked = NotPanicked
    /\ subject = "fn"
    /\ returned = <<>>
    /\ sync = NoSync
    /\ NoDrop

\* a run applies one function to the handle it obtained last, and ends
\* with the value it observes
Latest == Len(lists)

FnRunning == Running("fn") /\ returned = <<>>

\* the call returned the value r.val, or panicked
ValueReturn(r, op, src, f, arg, checks) ==
    /\ returned' = Append(returned, [op |-> op, src |-> src, f |-> f, arg |-> arg,
                                      checks |-> checks, val |-> r.val,
                                      panic |-> r.panic])
    /\ panicked' = IF r.panic THEN Unwound(op, src, 0, 0) ELSE panicked
    /\ UNCHANGED <<heap, lists, theap, trees, subject, sync, mem, th>>

FmapCall(f) ==
    /\ FnRunning
    /\ lists[Latest].op = "input"
    /\ ListReturn(fmap(heap, f, lists[Latest].head), "fmap", Latest, 0, f)

MreturnCall(x) ==
    /\ FnRunning
    /\ lists[Latest].op = "input"
    /\ ListReturn(mreturn(heap, x), "mreturn", 0, x, "")

\* mbind(L, k), mbind(mreturn(x), k) and mbind(mbind(L, k1), k)
MbindCall(k) ==
    /\ FnRunning
    /\ \/ lists[Latest].op \in {"input", "mreturn"}
       \/ /\ lists[Latest].op = "mbind"
          /\ lists[Latest].f \in ListFns
          /\ lists[lists[Latest].src].op = "input"
    /\ ListReturn(mbind(heap, lists[Latest].head, k), "mbind", Latest, 0, k)

\* mbind(L, |x| mbind(&k1(x), k2))
MbindKleisliCall(k1, k2) ==
    /\ FnRunning
    /\ lists[Latest].op = "input"
    /\ ListReturn(mbind(heap, lists[Latest].head, Kleisli(k1, k2)),
                  "mbind", Latest, 0, Kleisli(k1, k2))

FilterCall(p) ==
    /\ FnRunning
    /\ lists[Latest].op = "input"
    /\ ListReturn(filter(heap, p, lists[Latest].head), "filter", Latest, 0, p)

\* fmap(k, L) for a k that returns lists: a list of lists
FmapListsCall(k) ==
    /\ FnRunning
    /\ lists[Latest].op = "input"
    /\ ListReturn(fmap(heap, k, lists[Latest].head), "fmap_lists", Latest, 0, k)

ConcatAllCall ==
    /\ FnRunning
    /\ lists[Latest].op = "fmap_lists"
    /\ ListReturn(concat_all(heap, lists[Latest].head), "concat_all", Latest, 0, "")

\* a == b
EqCall(i, j) ==
    /\ FnRunning
    /\ lists[Latest].op \in {"input", "filter", "fmap"}
    /\ ValueReturn(Ok(heap, eq(heap, lists[i].head, lists[j].head)),
                   "eq", i, "", j, FALSE)

(***************************************************************************)
(* The folds applied to a drawn list of i32.                               *)
(***************************************************************************)
FoldElem == {-1, 1, 2, IntMax}

FoldInit ==
    /\ \E s \in SeqsUpTo(FoldElem, MaxLen) :
          LET r == list_of(<<>>, s)
          IN  /\ heap = r.heap
              /\ lists = <<ListHandle(r.val, "input", 0, s, "")>>
    /\ theap = <<>>
    /\ trees = <<TreeHandle(RBMap_new, "new", 0, 0, 0)>>
    /\ panicked = NotPanicked
    /\ subject = "fold"
    /\ returned = <<>>
    /\ sync = NoSync
    /\ NoDrop

\* a run folds its list once from each side
Folded(op) == \E n \in 1..Len(returned) : returned[n].op = op

FoldlCall(f, checks) ==
    /\ Running("fold") /\ ~Folded("foldl")
    /\ ValueReturn(foldl(heap, checks, f, 0, lists[1].head), "foldl", 1, f, 0, checks)

FoldrCall(f, checks) ==
    /\ Running("fold") /\ ~Folded("foldr")
    /\ ValueReturn(foldr(heap, checks, f, 0, lists[1].head), "foldr", 1, f, 0, checks)

FoldNext ==
    \/ \E f \in FoldFns, checks \in BOOLEAN : FoldlCall(f, checks)
    \/ \E f \in FoldFns, checks \in BOOLEAN : FoldrCall(f, checks)

FoldSpec == FoldInit /\ [][FoldNext]_vars

(***************************************************************************)
(* The two lists side by side: every call is made on the list of           *)
(* shared/list.rs over Rc nodes and on the list of sync/list.rs.           *)
(***************************************************************************)
EquivInit ==
    /\ \E s \in SeqsUpTo(Elem, MaxLen) :
          LET r == list_of(<<>>, s)
              sr == Sync_list_of(<<>>, s)
          IN  /\ heap = r.heap
              /\ lists = <<ListHandle(r.val, "input", 0, s, "")>>
              /\ sync = [heap |-> sr.heap,
                         lists |-> <<ListHandle(sr.val, "input", 0, s, "")>>,
                         panicked |-> NotPanicked]
    /\ theap = <<>>
    /\ trees = <<TreeHandle(RBMap_new, "new", 0, 0, 0)>>
    /\ panicked = NotPanicked
    /\ subject = "equiv"
    /\ returned = <<>>
    /\ NoDrop

\* a run makes a call on the drawn list and a call on what it then holds
EquivRunning ==
    /\ subject = "equiv"
    /\ panicked = NotPanicked /\ sync.panicked = NotPanicked
    /\ Len(lists) <= 2

\* a list of numbers; fmap with a list-valued closure gives a list of lists
OfNumbers(i) == lists[i].op # "fmap_lists"

\* the call returned r on the one list and sr on the other
BothReturn(r, sr, op, src, arg, f) ==
    /\ IF r.panic
       THEN /\ heap' = heap
            /\ lists' = lists
            /\ panicked' = Unwound(op, src, arg, 0)
       ELSE /\ heap' = r.heap
            /\ lists' = Append(lists, ListHandle(r.val, op, src, arg, f))
            /\ panicked' = panicked
    /\ sync' = IF sr.panic
               THEN [sync EXCEPT !.panicked = Unwound(op, src, arg, 0)]
               ELSE [sync EXCEPT !.heap = sr.heap,
                                 !.lists = Append(@, ListHandle(sr.val, op, src, arg, f))]
    /\ UNCHANGED <<theap, trees, subject, returned, mem, th>>

BothFromValue(x) ==
    /\ EquivRunning
    /\ BothReturn(from_value(heap, x), Sync_from_value(sync.heap, x),
                  "from_value", 0, x, "")

BothCons(x, i) ==
    /\ EquivRunning /\ OfNumbers(i)
    /\ BothReturn(cons(heap, x, lists[i].head),
                  Sync_cons(sync.heap, x, sync.lists[i].head), "cons", i, x, "")

BothPushedFront(i, x) ==
    /\ EquivRunning /\ OfNumbers(i)
    /\ BothReturn(pushed_front(heap, lists[i].head, x),
                  Sync_pushed_front(sync.heap, sync.lists[i].head, x),
                  "pushed_front", i, x, "")

BothPoppedFront(i) ==
    /\ EquivRunning /\ OfNumbers(i)
    /\ BothReturn(popped_front(heap, lists[i].head),
                  Sync_popped_front(sync.heap, sync.lists[i].head),
                  "popped_front", i, 0, "")

BothFilter(p, i) ==
    /\ EquivRunning /\ OfNumbers(i)
    /\ BothReturn(filter(heap, p, lists[i].head),
                  Sync_filter(sync.heap, p, sync.lists[i].head), "filter", i, 0, p)

BothFmap(f, i) ==
    /\ EquivRunning /\ OfNumbers(i)
    /\ BothReturn(fmap(heap, f, lists[i].head),
                  Sync_fmap(sync.heap, f, sync.lists[i].head),
                  IF f \in ValFns THEN "fmap" ELSE "fmap_lists", i, 0, f)

BothConcat(i, j) ==
    /\ EquivRunning /\ OfNumbers(i) /\ OfNumbers(j)
    /\ BothReturn(concat(heap, lists[i].head, lists[j].head),
                  Sync_concat(sync.heap, sync.lists[i].head, sync.lists[j].head),
                  "concat", i, j, "")

BothConcatAll(i) ==
    /\ EquivRunning /\ ~OfNumbers(i)
    /\ BothReturn(concat_all(heap, lists[i].head),
                  Sync_concat_all(sync.heap, sync.lists[i].head),
                  "concat_all", i, 0, "")

BothMreturn(x) ==
    /\ EquivRunning
    /\ BothReturn(mreturn(heap, x), Sync_mreturn(sync.heap, x), "mreturn", 0, x, "")

BothMbind(i, k) ==
    /\ EquivRunning /\ OfNumbers(i)
    /\ BothReturn(mbind(heap, lists[i].head, k),
                  Sync_mbind(sync.heap, sync.lists[i].head, k), "mbind", i, 0, k)

EquivNext ==
    \/ \E x \in Elem : BothFromValue(x)
    \/ \E x \in Elem, i \in 1..Len(lists) : BothCons(x, i)
    \/ \E x \in Elem, i \in 1..Len(lists) : BothPushedFront(i, x)
    \/ \E i \in 1..Len(lists) : BothPoppedFront(i)
    \/ \E p \in PredFns, i \in 1..Len(lists) : BothFilter(p, i)
    \/ \E f \in ValFns \cup ListFns, i \in 1..Len(lists) : BothFmap(f, i)
    \/ \E i \in 1..Len(lists), j \in 1..Len(lists) : BothConcat(i, j)
    \/ \E i \in 1..Len(lists) : BothConcatAll(i)
    \/ \E x \in Elem : BothMreturn(x)
    \/ \E i \in 1..Len(lists), k \in ListFns : BothMbind(i, k)

EquivSpec == EquivInit /\ [][EquivNext]_vars

FnNext ==
    \/ \E f \in ValFns : FmapCall(f)
    \/ \E x \in FnElem : MreturnCall(x)
    \/ \E k \in ListFns : MbindCall(k)
    \/ \E k1 \in ListFns, k2 \in ListFns : MbindKleisliCall(k1, k2)
    \/ \E p \in PredFns : FilterCall(p)
    \/ \E k \in ListFns : FmapListsCall(k)
    \/ ConcatAllCall
    \/ \E i \in 1..Len(lists), j \in 1..Len(lists) : EqCall(i, j)

FnSpec == FnInit /\ [][FnNext]_vars

Next == ListNext \/ TreeNext

Spec == Init /\ [][Next]_vars

(***************************************************************************)
(* Reference counts and teardown.  Rc<Node<T>> (unsync/list.rs, one        *)
(* thread) and Arc<Node<T>> (sync/list.rs, two threads whose steps         *)
(* interleave): every read-modify-write of a strong count is one step.     *)
(***************************************************************************)
NewNode(next, t) ==
    [next |-> next, strong |-> 1, released |-> 0,
     held |-> [u \in Threads |-> IF u = t THEN 1 ELSE 0]]

\* Rc::clone / Arc::clone of an Option<link>: one more strong reference
strong_clone(m, n) == IF n = None THEN m ELSE [m EXCEPT ![n].strong = @ + 1]

\* drop of an Rc / Arc: the count goes down, and the last one drops the node
strong_drop(m, n) ==
    [last |-> m[n].strong = 1, mem |-> [m EXCEPT ![n].strong = @ - 1]]

\* A try_unwrap that takes the node out although others still refer to it.
try_unwrap_shared(m, n) == [ok |-> TRUE, mem |-> [m EXCEPT ![n].strong = 0]]

\* Rc::try_unwrap / Arc::try_unwrap: succeeds iff the count is 1, which it
\* sets to 0; a failure gives the link back, count untouched
try_unwrap(m, n) ==
    IF m[n].strong = 1
    THEN [ok |-> TRUE, mem |-> [m EXCEPT ![n].strong = 0]]
    ELSE [ok |-> FALSE, mem |-> m]

\* node.next.take()
take_next(m, n) == [next |-> m[n].next, mem |-> [m EXCEPT ![n].next = None]]

\* the node's destructor has run and its memory is given back
release(m, n) == [m EXCEPT ![n].released = @ + 1]

RECURSIVE release_all(_, _)
release_all(m, stack) ==
    IF stack = <<>> THEN m ELSE release_all(release(m, Head(stack)), Tail(stack))

Max(a, b) == IF a >= b THEN a ELSE b

RECURSIVE HandlesOn(_, _)
HandlesOn(m, n) ==
    IF n = 0 THEN 0
    ELSE m[n].held[1] + m[n].held[2] + HandlesOn(m, n - 1)

HandlesAlive == HandlesOn(mem, Len(mem))

Holds(t, n) == mem[n].held[t] > 0

\* an Rc stays on the thread that made it
Tearing(t) ==
    /\ subject \in {"rc", "arc"}
    /\ subject = "rc" => t = 1

AtRest(t) == Tearing(t) /\ th[t].pc = "idle"

UnchangedByTeardown ==
    UNCHANGED <<heap, lists, theap, trees, panicked, subject, returned, sync>>

DropInit ==
    /\ subject \in {"rc", "arc"}
    /\ NoDrop
    /\ heap = <<>>
    /\ lists = <<ListHandle(List_new, "new", 0, 0, "")>>
    /\ theap = <<>>
    /\ trees = <<TreeHandle(RBMap_new, "new", 0, 0, 0)>>
    /\ panicked = NotPanicked
    /\ returned = <<>>
    /\ sync = NoSync

\* List::cons(x, &tail): tail is the empty list or a list the thread holds
TdCons(t, tail) ==
    /\ AtRest(t)
    /\ Len(mem) < MaxNodes /\ HandlesAlive < MaxHandles
    /\ tail # None => Holds(t, tail)
    /\ mem' = Append(strong_clone(mem, tail), NewNode(tail, t))
    /\ UNCHANGED th /\ UnchangedByTeardown

\* list.clone(), the clone handed to thread u
TdClone(t, n, u) ==
    /\ AtRest(t) /\ Tearing(u)
    /\ HandlesAlive < MaxHandles
    /\ Holds(t, n)
    /\ mem' = [strong_clone(mem, n) EXCEPT ![n].held[u] = @ + 1]
    /\ UNCHANGED th /\ UnchangedByTeardown

\* list.popped_front() of a list of two nodes or more
TdPoppedFront(t, n) ==
    /\ AtRest(t)
    /\ HandlesAlive < MaxHandles
    /\ Holds(t, n) /\ mem[n].next # None
    /\ mem' = [strong_clone(mem, mem[n].next) EXCEPT ![mem[n].next].held[t] = @ + 1]
    /\ UNCHANGED th /\ UnchangedByTeardown

\* a handle goes out of scope: sync  List::drop starts with head = self.head.take(),
\* unsync  the Option<Rc<Node>> of the List is dropped
TdDrop(t, n) ==
    /\ AtRest(t)
    /\ Holds(t, n)
    /\ mem' = [mem EXCEPT ![n].held[t] = @ - 1]
    /\ th' = [th EXCEPT ![t].pc = IF subject = "arc" THEN "list_drop" ELSE "rc_drop",
                         ![t].cur = n]
    /\ UnchangedByTeardown

\* sync  while let Some(node) = head { if let Ok(mut node) = Arc::try_unwrap(node)
\*       { head = node.next.take(); } else { break; } }
ListDropLoop(t) ==
    /\ Tearing(t) /\ th[t].pc = "list_drop"
    /\ IF th[t].cur = None
       THEN /\ th' = [th EXCEPT ![t].pc = "idle"]
            /\ mem' = mem
       ELSE LET u == try_unwrap(mem, th[t].cur)
                k == take_next(u.mem, th[t].cur)
            IN  IF u.ok
                THEN \* the node, its next taken, is destroyed one level deep
                     /\ mem' = release(k.mem, th[t].cur)
                     /\ th' = [th EXCEPT ![t].cur = k.next,
                                          ![t].deepest = Max(@, 1)]
                ELSE \* break, with the Err(node) still to be dropped
                     /\ mem' = mem
                     /\ th' = [th EXCEPT ![t].pc = "err"]
    /\ UnchangedByTeardown

\* sync  the Err(node) of the failed try_unwrap is dropped: an ordinary
\* drop of an Arc, which destroys the node if it is the last
ListDropErr(t) ==
    /\ Tearing(t) /\ th[t].pc = "err"
    /\ LET d == strong_drop(mem, th[t].cur)
       IN  /\ mem' = d.mem
           /\ th' = IF d.last
                     THEN [th EXCEPT ![t].pc = "glue",
                                     ![t].stack = <<th[t].cur>>,
                                     ![t].cur = None,
                                     ![t].deepest = Max(@, 1)]
                     ELSE [th EXCEPT ![t].pc = "idle", ![t].cur = None]
    /\ UnchangedByTeardown

\* sync  Node<T> has no Drop: destroying a node drops its next field, an
\* Arc, inside the node's destructor
NodeGlue(t) ==
    /\ Tearing(t) /\ th[t].pc = "glue"
    /\ LET n == th[t].stack[Len(th[t].stack)]
           k == take_next(mem, n)
       IN  IF k.next = None
           THEN /\ mem' = release_all(mem, th[t].stack)
                /\ th' = [th EXCEPT ![t].pc = "idle", ![t].stack = <<>>]
           ELSE LET d == strong_drop(k.mem, k.next)
                IN  IF d.last
                    THEN /\ mem' = d.mem
                         /\ th' = [th EXCEPT ![t].stack = Append(@, k.next),
                                              ![t].deepest = Max(@, Len(th[t].stack) + 1)]
                    ELSE /\ mem' = release_all(d.mem, th[t].stack)
                         /\ th' = [th EXCEPT ![t].pc = "idle", ![t].stack = <<>>]
    /\ UnchangedByTeardown

\* unsync  drop of the Rc: the last one runs Node::drop, which starts with
\* let mut next = self.next.take()
RcDrop(t) ==
    /\ Tearing(t) /\ th[t].pc = "rc_drop"
    /\ LET d == strong_drop(mem, th[t].cur)
           k == take_next(d.mem, th[t].cur)
       IN  IF d.last
           THEN /\ mem' = k.mem
                /\ th' = [th EXCEPT ![t].pc = "node_drop",
                                     ![t].stack = <<th[t].cur>>,
                                     ![t].cur = k.next,
                                     ![t].deepest = Max(@, 1)]
           ELSE /\ mem' = d.mem
                /\ th' = [th EXCEPT ![t].pc = "idle", ![t].cur = None]
    /\ UnchangedByTeardown

\* unsync  while let Some(node) = next { if let Ok(mut node) = Rc::try_unwrap(node)
\*         { next = node.next.take(); } else { break; } }
NodeDropLoop(t) ==
    /\ Tearing(t) /\ th[t].pc = "node_drop"
    /\ IF th[t].cur = None
       THEN /\ mem' = release_all(mem, th[t].stack)
            /\ th' = [th EXCEPT ![t].pc = "idle", ![t].stack = <<>>]
       ELSE LET u == try_unwrap(mem, th[t].cur)
                k == take_next(u.mem, th[t].cur)
                d == strong_drop(mem, th[t].cur)
            IN  IF u.ok
                THEN \* the unwrapped node is dropped at the end of the block:
                     \* its own Node::drop, one level further in, finds no next
                     /\ mem' = release(k.mem, th[t].cur)
                     /\ th' = [th EXCEPT ![t].cur = k.next,
                                          ![t].deepest = Max(@, Len(th[t].stack) + 1)]
                ELSE \* break: the Err(rc) is dropped, others still hold the node
                     /\ mem' = release_all(d.mem, th[t].stack)
                     /\ th' = [th EXCEPT ![t].pc = "idle", ![t].cur = None,
                                          ![t].stack = <<>>]
    /\ UnchangedByTeardown

DropNext ==
    \/ \E t \in Threads, tail \in 0..Len(mem) : TdCons(t, tail)
    \/ \E t \in Threads, u \in Threads, n \in 1..Len(mem) : TdClone(t, n, u)
    \/ \E t \in Threads, n \in 1..Len(mem) : TdPoppedFront(t, n)
    \/ \E t \in Threads, n \in 1..Len(mem) : TdDrop(t, n)
    \/ \E t \in Threads : ListDropLoop(t)
    \/ \E t \in Threads : ListDropErr(t)
    \/ \E t \in Threads : NodeGlue(t)
    \/ \E t \in Threads : RcDrop(t)
    \/ \E t \in Threads : NodeDropLoop(t)

DropSpec == DropInit /\ [][DropNext]_vars

(***************************************************************************)
(* Red-black invariants (specification, section 3).                        *)
(***************************************************************************)
RECURSIVE NoRedRed(_, _)
NoRedRed(h, n) ==
    \/ n = None
    \/ /\ ~(IsRed(h, n) /\ (IsRed(h, h[n].left) \/ IsRed(h, h[n].right)))
       /\ NoRedRed(h, h[n].left)
       /\ NoRedRed(h, h[n].right)

\* the number of Black nodes on every path to an empty leaf, -1 if paths differ
RECURSIVE BlackHeight(_, _)
BlackHeight(h, n) ==
    IF n = None
    THEN 0
    ELSE LET l == BlackHeight(h, h[n].left)
             r == BlackHeight(h, h[n].right)
         IN  IF l < 0 \/ r < 0 \/ l # r
             THEN -1
             ELSE l + (IF h[n].colour = Black THEN 1 ELSE 0)

RedBlack(h, t) ==
    /\ NoRedRed(h, t)
    /\ BlackHeight(h, t) >= 0
    /\ t = None \/ h[t].colour = Black

TreeIds == 1..Len(trees)
ListIds == 1..Len(lists)

\* trees[i] is the empty tree or came from it by inserted calls alone
RECURSIVE BuiltByInserted(_)
BuiltByInserted(i) ==
    \/ trees[i].op = "new"
    \/ trees[i].op = "inserted" /\ BuiltByInserted(trees[i].src)

\* the keys given to the inserted calls that built trees[i]
RECURSIVE InsertedKeys(_)
InsertedKeys(i) ==
    IF trees[i].op = "inserted"
    THEN {trees[i].key} \cup InsertedKeys(trees[i].src)
    ELSE {}

(***************************************************************************)
(* C1: starting from the empty tree, every inserted call yields a tree,    *)
(* and that tree has no Red node with a Red child, the same number of      *)
(* Black nodes on every root-to-leaf path, and a Black root.               *)
(***************************************************************************)
C1_InsertedKeepsRedBlack ==
    /\ panicked.op = "inserted" => ~BuiltByInserted(panicked.src)
    /\ \A i \in TreeIds : BuiltByInserted(i) => RedBlack(theap, trees[i].root)

(***************************************************************************)
(* C2: inserted has no precondition: on every map, the empty one included, *)
(* it runs to completion and returns a non-empty map; when the key was not *)
(* in the map the result contains it and get and get_key_value return the  *)
(* inserted pair.                                                          *)
(***************************************************************************)
C2_InsertedCompletes ==
    /\ panicked.op # "inserted"
    /\ \A i \in TreeIds :
          trees[i].op = "inserted" =>
             LET m == trees[i].root
                 src == trees[trees[i].src].root
                 k == trees[i].key
                 v == trees[i].val
             IN  /\ ~RBMap_is_empty(m)
                 /\ ~RBMap_contains_key(theap, src, k) =>
                       /\ RBMap_contains_key(theap, m, k)
                       /\ RBMap_get(theap, m, k) = Some(v)
                       /\ RBMap_get_key_value(theap, m, k) = Some(<<k, v>>)

(***************************************************************************)
(* C3: inserted is first-writer-wins: on a map that holds key k with value *)
(* v0, inserted(k, v) returns a map whose get(k) is still Some(v0).        *)
(***************************************************************************)
C3_InsertedFirstWriterWins ==
    /\ panicked.op = "inserted" =>
          ~RBMap_contains_key(theap, trees[panicked.src].root, panicked.key)
    /\ \A i \in TreeIds :
          (/\ trees[i].op = "inserted"
           /\ RBMap_contains_key(theap, trees[trees[i].src].root, trees[i].key)) =>
             RBMap_get(theap, trees[i].root, trees[i].key)
                = RBMap_get(theap, trees[trees[i].src].root, trees[i].key)

C5_InsertedMembershipMonotone ==
    /\ panicked.op = "inserted" => ~BuiltByInserted(panicked.src)
    /\ \A i \in TreeIds :
          BuiltByInserted(i) =>
             \A q \in Keys :
                RBTree_contains(theap, trees[i].root, q) <=> q \in InsertedKeys(i)

(***************************************************************************)
(* C6: persistence.  No call changes a handle the client already holds:    *)
(* is_empty, front and the element sequence of every list, and is_empty,   *)
(* contains and get of every tree, are after the call (cons, pushed_front, *)
(* inserted or any other) what they were before it.                        *)
(***************************************************************************)
ListObs(h, l) == <<is_empty(l), front(h, l), iter(h, l)>>

TreeObs(h, t) ==
    <<RBTree_is_empty(t),
      [q \in Keys |-> RBTree_contains(h, t, q)],
      [q \in Keys |-> RBTree_get(h, t, q)]>>

Allocating == {"from_value", "cons", "pushed_front"}

C7_PoppedFrontOfConsShares ==
    /\ \A j \in ListIds :
          (lists[j].op = "popped_front" /\ lists[lists[j].src].op = "cons") =>
             LET L == lists[lists[lists[j].src].src].head
             IN  /\ lists[j].head = L
                 /\ eq(heap, lists[j].head, L)
    /\ subject = "list" =>
          Len(heap) = Cardinality({i \in ListIds : lists[i].op \in Allocating})

\* cons(x, L).popped_front() was taken for a non-empty L
C7_Witness ==
    \E j \in ListIds :
       /\ lists[j].op = "popped_front"
       /\ lists[lists[j].src].op = "cons"
       /\ ~is_empty(lists[lists[lists[j].src].src].head)
       /\ lists[j].head = lists[lists[lists[j].src].src].head

(***************************************************************************)
(* C8: popped_front on an empty list and left or right on an empty tree    *)
(* panic and return nothing; on a non-empty list or tree they return and   *)
(* do not panic.                                                           *)
(***************************************************************************)
C8_PreconditionViolationsAbort ==
    /\ panicked.op = "popped_front" => is_empty(lists[panicked.src].head)
    /\ panicked.op \in {"left", "right"} => RBTree_is_empty(trees[panicked.src].root)
    /\ \A j \in ListIds :
          lists[j].op = "popped_front" => ~is_empty(lists[lists[j].src].head)
    /\ \A j \in TreeIds :
          trees[j].op \in {"left", "right"} =>
             ~RBTree_is_empty(trees[trees[j].src].root)

\* popped_front was called on an empty list and panicked
C8_Witness ==
    /\ panicked.op = "popped_front"
    /\ is_empty(lists[panicked.src].head)

(***************************************************************************)
(* C9: fmap(f, L) is f applied to every element of L in L's front-to-back  *)
(* order: for L = [x1, ..., xn] the result is [f(x1), ..., f(xn)].         *)
(***************************************************************************)
C9_FmapKeepsOrder ==
    \A j \in ListIds :
       lists[j].op = "fmap" =>
          LET xs == iter(heap, lists[lists[j].src].head)
          IN  iter(heap, lists[j].head)
                 = [n \in 1..Len(xs) |-> CallValue(lists[j].f, xs[n])]

(***************************************************************************)
(* C10: monad left identity: mbind(mreturn(x), k) == k(x).                 *)
(***************************************************************************)
C10_MonadLeftIdentity ==
    \A j \in ListIds :
       (lists[j].op = "mbind" /\ lists[lists[j].src].op = "mreturn") =>
          zip_all_both_eq(iter(heap, lists[j].head),
                          CallValue(lists[j].f, lists[lists[j].src].arg))

(***************************************************************************)
(* C11: monad associativity: mbind(mbind(L, k1), k2) ==                    *)
(* mbind(L, |x| mbind(k1(x), k2)) for every list L and all k1, k2, seen    *)
(* from either side: whichever of the two a run has computed is equal to   *)
(* the other.                                                              *)
(***************************************************************************)
C11_MonadAssociativity ==
    \A j \in ListIds :
       /\ ( /\ lists[j].op = "mbind"
            /\ lists[lists[j].src].op = "mbind"
            /\ lists[lists[lists[j].src].src].op = "input" ) =>
             LET L == lists[lists[lists[j].src].src].head
                 k1 == lists[lists[j].src].f
                 k2 == lists[j].f
                 rhs == mbind(heap, L, Kleisli(k1, k2))
             IN  eq(rhs.heap, lists[j].head, rhs.val)
       /\ ( /\ lists[j].op = "mbind"
            /\ lists[j].f \in KleisliFns
            /\ lists[lists[j].src].op = "input" ) =>
             LET L == lists[lists[j].src].head
                 inner == mbind(heap, L, KleisliFirst(lists[j].f))
                 lhs == mbind(inner.heap, inner.val, KleisliSecond(lists[j].f))
             IN  eq(lhs.heap, lhs.val, lists[j].head)

(***************************************************************************)
(* C12: monad right identity: mbind(L, mreturn) == L for every list L.     *)
(***************************************************************************)
C12_MonadRightIdentity ==
    \A j \in ListIds :
       (lists[j].op = "mbind" /\ lists[j].f = "mreturn") =>
          eq(heap, lists[j].head, lists[lists[j].src].head)

\* mbind(L, mreturn) was taken of an L that is not its own reverse
C12_Witness ==
    \E j \in ListIds :
       /\ lists[j].op = "mbind" /\ lists[j].f = "mreturn"
       /\ lists[lists[j].src].op = "input"
       /\ LET xs == iter(heap, lists[lists[j].src].head)
          IN  /\ Len(xs) >= 3
              /\ xs[1] # xs[Len(xs)]
              /\ iter(heap, lists[j].head) = xs

(***************************************************************************)
(* C13: concat_all flattens: for xss = [l1, ..., lm], concat_all(xss) is   *)
(* foldr(concat, empty, xss): the elements of l1 in order, then those of   *)
(* l2, ..., then those of lm.                                              *)
(***************************************************************************)
C13_ConcatAllFlattens ==
    \A j \in ListIds :
       lists[j].op = "concat_all" =>
          LET xss == lists[lists[j].src].head
              reference == foldr(heap, FALSE, "concat", List_empty, xss)
          IN  eq(reference.heap, lists[j].head, reference.val)

(***************************************************************************)
(* C14: filter(p, L) is exactly the elements of L that satisfy p, each as  *)
(* often as it occurs in L and in L's front-to-back order, and L is left   *)
(* unchanged.                                                              *)
(***************************************************************************)
C14_FilterKeepsSatisfyingInOrder ==
    \A j \in ListIds :
       lists[j].op = "filter" =>
          LET L == lists[lists[j].src]
              xs == iter(heap, L.head)
          IN  /\ iter(heap, lists[j].head)
                    = SelectSeq(xs, LAMBDA v : Test(lists[j].f, v))
              \* L is still the list it was drawn as
              /\ L.op = "input" => xs = L.arg

\* a filter kept at least two different elements and dropped one
C14_Witness ==
    \E j \in ListIds :
       /\ lists[j].op = "filter"
       /\ LET xs == iter(heap, lists[lists[j].src].head)
              ys == iter(heap, lists[j].head)
          IN  /\ Len(ys) >= 2
              /\ Len(ys) < Len(xs)
              /\ ys[1] # ys[2]
              /\ ys = SelectSeq(xs, LAMBDA v : Test(lists[j].f, v))

(***************************************************************************)
(* C15: list equality: a == b if and only if a and b have the same length  *)
(* and the same element at every position; lists of different length are   *)
(* never equal, a proper prefix included.                                  *)
(***************************************************************************)
C15_ListEquality ==
    \A n \in 1..Len(returned) :
       returned[n].op = "eq" =>
          LET a == iter(heap, lists[returned[n].src].head)
              b == iter(heap, lists[returned[n].arg].head)
          IN  /\ ~returned[n].panic
              /\ returned[n].val
                    = ( /\ Len(a) = Len(b)
                        /\ \A i \in 1..Len(a) : a[i] = b[i] )

\* a non-empty proper prefix of a list was compared with it, and was unequal
C15_Witness ==
    \E n \in 1..Len(returned) :
       /\ returned[n].op = "eq"
       /\ LET a == iter(heap, lists[returned[n].src].head)
              b == iter(heap, lists[returned[n].arg].head)
          IN  /\ a # <<>>
              /\ Len(a) < Len(b)
              /\ a = SubSeq(b, 1, Len(a))
              /\ returned[n].val = FALSE

\* two equal lists that share no node were compared, and were equal
C15_EqualCopies ==
    \E n \in 1..Len(returned) :
       /\ returned[n].op = "eq"
       /\ lists[returned[n].src].head # lists[returned[n].arg].head
       /\ Len(iter(heap, lists[returned[n].src].head)) >= 2
       /\ returned[n].val = TRUE

(***************************************************************************)
(* Sums of i32.                                                            *)
(***************************************************************************)
RECURSIVE Sum(_)
Sum(xs) == IF xs = <<>> THEN 0 ELSE Head(xs) + Sum(Tail(xs))

InI32(n) == IntMin <= n /\ n <= IntMax

\* no sum of a prefix and no sum of a suffix of xs overflows
RunningSumsFit(xs) ==
    \A n \in 0..Len(xs) :
       /\ InI32(Sum(SubSeq(xs, 1, n)))
       /\ InI32(Sum(SubSeq(xs, n + 1, Len(xs))))

Outcome(r) == <<r.panic, r.val>>

(***************************************************************************)
(* C16, as stated: fold agreement: for every list L of integers,           *)
(* foldl(+, 0, L) == foldr(+, 0, L), and both equal the sum of L's         *)
(* elements.                                                               *)
(***************************************************************************)
C16_FoldAgreement ==
    \A n \in 1..Len(returned) :
       (returned[n].op \in {"foldl", "foldr"} /\ returned[n].f = "add") =>
          LET L == lists[returned[n].src].head
              l == foldl(heap, returned[n].checks, "add", 0, L)
              r == foldr(heap, returned[n].checks, "add", 0, L)
          IN  /\ Outcome(returned[n]) = <<FALSE, Sum(iter(heap, L))>>
              /\ Outcome(l) = Outcome(r)

(***************************************************************************)
(* C16, amended: for every list L of i32 whose sums from the front and     *)
(* from the back all fit i32, foldl(+, 0, L) == foldr(+, 0, L) and both    *)
(* are the sum of L's elements; in a build without overflow checks the two *)
(* folds agree on every L and give the sum modulo 2^IntBits.               *)
(***************************************************************************)
C16_FoldAgreementWithoutOverflow ==
    \A n \in 1..Len(returned) :
       (returned[n].op \in {"foldl", "foldr"} /\ returned[n].f = "add") =>
          LET L == lists[returned[n].src].head
              xs == iter(heap, L)
              l == foldl(heap, returned[n].checks, "add", 0, L)
              r == foldr(heap, returned[n].checks, "add", 0, L)
          IN  /\ RunningSumsFit(xs) =>
                    /\ Outcome(returned[n]) = <<FALSE, Sum(xs)>>
                    /\ Outcome(l) = Outcome(r)
              /\ ~returned[n].checks =>
                    /\ Outcome(returned[n]) = <<FALSE, wrapping(Sum(xs))>>
                    /\ Outcome(l) = Outcome(r)

\* both folds summed a list of mixed signs whose running sums fit, with
\* overflow checks, and returned its sum
C16_Witness ==
    /\ Len(returned) = 2
    /\ \A n \in 1..2 : returned[n].f = "add" /\ returned[n].checks
    /\ LET xs == iter(heap, lists[1].head)
       IN  /\ Len(xs) >= 3
           /\ \E i \in 1..Len(xs) : xs[i] < 0
           /\ \E i \in 1..Len(xs) : xs[i] > 1
           /\ RunningSumsFit(xs)
           /\ \A n \in 1..2 : Outcome(returned[n]) = <<FALSE, Sum(xs)>>

(***************************************************************************)
(* C17: fold direction: for L = [x1, ..., xn], foldl(f, acc, L) is         *)
(* f(...f(f(acc, x1), x2)..., xn) and foldr(f, acc, L) is                  *)
(* f(x1, f(x2, ... f(xn, acc))); with subtraction, acc 0 and L = [1, 1, 1] *)
(* foldl gives -3 and foldr gives 1.                                       *)
(***************************************************************************)
\* f(...f(f(acc, x1), x2)..., xn): the innermost call is on x1
RECURSIVE NestLeft(_, _, _, _)
NestLeft(checks, f, acc, xs) ==
    IF xs = <<>>
    THEN Ok(<<>>, acc)
    ELSE LET inner == NestLeft(checks, f, acc, SubSeq(xs, 1, Len(xs) - 1))
         IN  IF inner.panic
             THEN inner
             ELSE Call2(<<>>, checks, f, inner.val, xs[Len(xs)])

\* f(x1, f(x2, ... f(xn, acc))): the innermost call is on xn
RECURSIVE NestRight(_, _, _, _)
NestRight(checks, f, acc, xs) ==
    IF xs = <<>>
    THEN Ok(<<>>, acc)
    ELSE LET inner == NestRight(checks, f, acc, Tail(xs))
         IN  IF inner.panic
             THEN inner
             ELSE Call2(<<>>, checks, f, Head(xs), inner.val)

C17_FoldDirection ==
    \A n \in 1..Len(returned) :
       LET c == returned[n]
           xs == iter(heap, lists[c.src].head)
       IN  /\ c.op = "foldl" =>
                 /\ Outcome(c) = Outcome(NestLeft(c.checks, c.f, c.arg, xs))
                 /\ (c.f = "sub" /\ xs = <<1, 1, 1>>) => Outcome(c) = <<FALSE, -3>>
           /\ c.op = "foldr" =>
                 /\ Outcome(c) = Outcome(NestRight(c.checks, c.f, c.arg, xs))
                 /\ (c.f = "sub" /\ xs = <<1, 1, 1>>) => Outcome(c) = <<FALSE, 1>>

\* [1, 1, 1] was folded with subtraction from both sides: -3 and 1
C17_Witness ==
    /\ iter(heap, lists[1].head) = <<1, 1, 1>>
    /\ \E n \in 1..Len(returned) :
          /\ returned[n].op = "foldl" /\ returned[n].f = "sub"
          /\ Outcome(returned[n]) = <<FALSE, -3>>
    /\ \E n \in 1..Len(returned) :
          /\ returned[n].op = "foldr" /\ returned[n].f = "sub"
          /\ Outcome(returned[n]) = <<FALSE, 1>>

(***************************************************************************)
(* C18: the list over Rc nodes and the list over Arc nodes are             *)
(* observationally equivalent: given the same calls they hold the same     *)
(* element sequences, return the same values (front, is_empty, iteration,  *)
(* ==, foldl, foldr) and abort on the same calls.                          *)
(***************************************************************************)
\* what a handle shows: its elements, or for a list of lists their elements
Shown(h, l, numbers) ==
    IF numbers
    THEN iter(h, l)
    ELSE [n \in 1..Len(iter(h, l)) |-> iter(h, iter(h, l)[n])]

Sync_Shown(h, l, numbers) ==
    IF numbers
    THEN Sync_iter(h, l)
    ELSE [n \in 1..Len(Sync_iter(h, l)) |-> Sync_iter(h, Sync_iter(h, l)[n])]

C18_RcAndArcListsEquivalent ==
    subject = "equiv" =>
       /\ panicked = sync.panicked
       /\ Len(lists) = Len(sync.lists)
       /\ \A i \in 1..Len(lists) :
             LET a == lists[i].head
                 b == sync.lists[i].head
             IN  /\ Shown(heap, a, OfNumbers(i)) = Sync_Shown(sync.heap, b, OfNumbers(i))
                 /\ is_empty(a) = Sync_is_empty(b)
                 /\ OfNumbers(i) =>
                       /\ front(heap, a) = Sync_front(sync.heap, b)
                       /\ \A j \in 1..Len(lists) :
                             OfNumbers(j) =>
                                eq(heap, a, lists[j].head)
                                   = Sync_eq(sync.heap, b, sync.lists[j].head)
                       /\ \A f \in FoldFns, checks \in BOOLEAN :
                             /\ Outcome(foldl(heap, checks, f, 0, a))
                                   = Outcome(Sync_foldl(sync.heap, checks, f, 0, b))
                             /\ Outcome(foldr(heap, checks, f, 0, a))
                                   = Outcome(Sync_foldr(sync.heap, checks, f, 0, b))

\* both lists were mapped and then bound to a list-valued closure, and hold
\* the same six or more elements
C18_Witness ==
    /\ subject = "equiv"
    /\ \E j \in 1..Len(lists) :
          /\ lists[j].op = "mbind" /\ sync.lists[j].op = "mbind"
          /\ lists[lists[j].src].op = "fmap"
          /\ Len(iter(heap, lists[j].head)) >= 6
          /\ iter(heap, lists[j].head)[1] # iter(heap, lists[j].head)[2]
          /\ iter(heap, lists[j].head) = Sync_iter(sync.heap, sync.lists[j].head)

\* popped_front of the empty list aborted on both lists
C18_BothAbort ==
    /\ subject = "equiv"
    /\ panicked.op = "popped_front" /\ sync.panicked.op = "popped_front"

(***************************************************************************)
(* C19: teardown is iterative: however long the chain whose last reference *)
(* is released, node destructors never nest deeper than a constant (two    *)
(* levels: a node and the node it has just unlinked); for the thread-safe  *)
(* list under every interleaving of the threads that drop handles.         *)
(***************************************************************************)
C19_TeardownIsIterative ==
    \A t \in Threads : th[t].deepest <= 2

\* the same of the list over Rc alone
C19_RcTeardownIsIterative ==
    subject = "rc" => \A t \in Threads : th[t].deepest <= 2

\* a thread has torn down a chain of three nodes through a handle on its head
C19_RcChainTornDown ==
    /\ subject = "rc"
    /\ Len(mem) = 3
    /\ mem[3].released = 1 /\ mem[2].released = 1 /\ mem[1].released = 1
    /\ th[1].pc = "idle" /\ th[1].deepest = 2

(***************************************************************************)
(* C20: reference-count safety: under every sequence, and for Arc every    *)
(* interleaving, of cons, clone, popped_front and drop, a node is released *)
(* at most once and only when no handle, no live node and no drop in       *)
(* progress refers to it; its count is the number of its referrers until   *)
(* then; no handle reaches a released node; and when every handle has been *)
(* dropped and every drop has finished, every node has been released.      *)
(***************************************************************************)
Nodes == 1..Len(mem)

\* a reference a drop in progress still owns
InFlight(n) ==
    Cardinality({t \in Threads : th[t].pc # "idle" /\ th[t].pc # "glue"
                                   /\ th[t].cur = n})

\* the nodes whose destructor is running
OnStack(n) == \E t \in Threads : \E i \in 1..Len(th[t].stack) : th[t].stack[i] = n

NextRefs(n) == Cardinality({m \in Nodes : mem[m].released = 0 /\ mem[m].next = n})

Referrers(n) == mem[n].held[1] + mem[n].held[2] + NextRefs(n) + InFlight(n)

RECURSIVE ChainLive(_)
ChainLive(n) == n = None \/ (mem[n].released = 0 /\ ChainLive(mem[n].next))

C20_ReferenceCountSafety ==
    /\ \A n \in Nodes :
          /\ mem[n].released <= 1
          /\ mem[n].released = 1 =>
                mem[n].strong = 0 /\ Referrers(n) = 0 /\ mem[n].next = None
          /\ mem[n].released = 0 =>
                IF OnStack(n)
                THEN mem[n].strong = 0 /\ Referrers(n) = 0
                ELSE mem[n].strong = Referrers(n) /\ mem[n].strong > 0
          /\ \A t \in Threads : Holds(t, n) => ChainLive(n)
    /\ (HandlesAlive = 0 /\ \A t \in Threads : th[t].pc = "idle") =>
          \A n \in Nodes : mem[n].released = 1

\* two threads shared a chain of three Arc nodes, each of them destroyed
\* nodes of it, and with the last handle gone all three are released
C20_Witness ==
    /\ subject = "arc"
    /\ Len(mem) = 3
    /\ mem[3].released = 1 /\ mem[2].released = 1 /\ mem[1].released = 1
    /\ HandlesAlive = 0
    /\ \A t \in Threads : th[t].pc = "idle" /\ th[t].deepest >= 1

(***************************************************************************)
(* The nodes an insertion of x into the tree rooted at n visits, the       *)
(* subtrees that hang off that path, and the node that holds x.            *)
(***************************************************************************)
RECURSIVE SearchPath(_, _, _)
SearchPath(h, n, x) ==
    IF n = None
    THEN {}
    ELSE LET c == KeyValue_partial_cmp(x, RBNode_get_element(h, n))
         IN  {n} \cup (CASE c = "Less" -> SearchPath(h, h[n].left, x)
                         [] c = "Greater" -> SearchPath(h, h[n].right, x)
                         [] OTHER -> {})

OffPath(h, n, x) ==
    {s \in 1..Len(h) :
        \E p \in SearchPath(h, n, x) :
           LET c == KeyValue_partial_cmp(x, RBNode_get_element(h, p))
           IN  \/ c # "Less" /\ s = h[p].left
               \/ c # "Greater" /\ s = h[p].right}

Holder(h, n, x) ==
    {p \in SearchPath(h, n, x) :
        KeyValue_partial_cmp(x, RBNode_get_element(h, p)) = "Equal"}

RECURSIVE Reach(_, _)
Reach(h, n) ==
    IF n = None THEN {} ELSE {n} \cup Reach(h, h[n].left) \cup Reach(h, h[n].right)

(***************************************************************************)
(* C21: structural sharing on insert.  T.inserted(x) returns a tree; the   *)
(* nodes the call creates hold x or an element of the search path from the *)
(* root of T to x's insertion point (the path's positions and the nodes a  *)
(* rebalance rebuilds there); every subtree hanging off that path is in    *)
(* the result as the identical node of T; and when x is already present    *)
(* the node holding it is the identical node in the result.                *)
(***************************************************************************)
C21_StructuralSharingOnInsert ==
    [][/\ panicked'.op # "inserted"
       /\ (/\ Len(trees') = Len(trees) + 1
           /\ trees'[Len(trees')].op = "inserted") =>
             LET new == trees'[Len(trees')]
                 T == trees[new.src].root
                 R == new.root
                 x == KeyValue(new.key, new.val)
                 path == SearchPath(theap, T, x)
             IN  /\ \A n \in (Len(theap) + 1)..Len(theap') :
                       theap'[n].element \in {x} \cup {theap[p].element : p \in path}
                 /\ \A s \in OffPath(theap, T, x) :
                       s \in Reach(theap', R) /\ theap'[s] = theap[s]
                 /\ \A p \in Holder(theap, T, x) :
                       p \in Holder(theap', R, x) /\ theap'[p] = theap[p]
      ]_vars

(***************************************************************************)
(* The red-red shapes of the arguments of balance_node: for each of        *)
(* left-left, left-right, right-left and right-right that the arguments    *)
(* match, the in-order sequence <<a, x1, b, x2, c, x3, d>> of the three    *)
(* elements and the four outer subtrees.                                   *)
(***************************************************************************)
RedRedShapes(h, c, x, left, right) ==
    IF c # Black
    THEN {}
    ELSE (IF IsRed(h, left) /\ IsRed(h, h[left].left)
          THEN {<<h[h[left].left].left, h[h[left].left].element,
                  h[h[left].left].right, h[left].element, h[left].right,
                  x, right>>}
          ELSE {})
         \cup
         (IF IsRed(h, left) /\ IsRed(h, h[left].right)
          THEN {<<h[left].left, h[left].element, h[h[left].right].left,
                  h[h[left].right].element, h[h[left].right].right,
                  x, right>>}
          ELSE {})
         \cup
         (IF IsRed(h, right) /\ IsRed(h, h[right].left)
          THEN {<<left, x, h[h[right].left].left, h[h[right].left].element,
                  h[h[right].left].right, h[right].element, h[right].right>>}
          ELSE {})
         \cup
         (IF IsRed(h, right) /\ IsRed(h, h[right].right)
          THEN {<<left, x, h[right].left, h[right].element,
                  h[h[right].right].left, h[h[right].right].element,
                  h[h[right].right].right>>}
          ELSE {})

\* the same sequence read off a node with two children
ShapeOf(h, n) ==
    <<h[h[n].left].left, h[h[n].left].element, h[h[n].left].right,
      h[n].element,
      h[h[n].right].left, h[h[n].right].element, h[h[n].right].right>>

(***************************************************************************)
(* C22: rebalance case analysis.  On the arguments sorted_insert can pass  *)
(* (a colour, an element, and two children of which at least one is a      *)
(* node), balance_node returns a node: when c is Black and a Red child has *)
(* a Red child, a Red node with two Black children whose in-order sequence *)
(* of elements and outer subtrees is that of the arguments; for every      *)
(* other colouring, a node with colour c, element x and exactly the given  *)
(* left and right children.                                                *)
(***************************************************************************)
C22_RebalanceCaseAnalysis ==
    \A c \in {Red, Black}, k \in Keys, v \in Vals,
       left \in 0..Len(theap), right \in 0..Len(theap) :
       (left # None \/ right # None) =>
          LET x == KeyValue(k, v)
              r == balance_node(theap, c, x, left, right)
              shapes == RedRedShapes(theap, c, x, left, right)
          IN  /\ ~r.panic
              /\ r.val # None
              /\ \A n \in 1..Len(theap) : r.heap[n] = theap[n]
              /\ LET node == r.heap[r.val]
                 IN  IF shapes # {}
                     THEN /\ node.colour = Red
                          /\ node.left # None /\ node.right # None
                          /\ r.heap[node.left].colour = Black
                          /\ r.heap[node.right].colour = Black
                          /\ ShapeOf(r.heap, r.val) \in shapes
                     ELSE node = [element |-> x, colour |-> c,
                                  left |-> left, right |-> right]

====
